---------------------------- MODULE Spec2Model ----------------------------
(***************************************************************************)
(* Model of Electric_Field.py: a Streamlit script that collects 1..5 point *)
(* charges from sidebar widgets, evaluates the superposed Coulomb field    *)
(* and potential on a square grid (calculate_field_and_potential) and      *)
(* renders a filled contour of V with levels taken from a percentile.      *)
(*                                                                         *)
(* The script computes in binary floating point (numpy float64).  The      *)
(* model keeps that arithmetic: a number is a pair <<m, e>> standing for   *)
(* m * 2^e with a mantissa of Prec bits, and every operation rounds its    *)
(* exact result to the nearest such number, ties to even, exactly as IEEE  *)
(* 754 does with 53 bits.  Exponents are unbounded (the script's values    *)
(* stay far from overflow and underflow); a division by zero yields Inf or *)
(* NaN, which propagate.                                                   *)
(***************************************************************************)
EXTENDS Integers, Sequences, FiniteSets, TLC

(***************************************************************************)
(* Bounds of the model.                                                    *)
(***************************************************************************)
\* mantissa width of the modelled floating-point format (float64 has 53)
Prec == 8

\* grid_size of the script's pass (the script passes 100)
AppGridSize == 3

\* number of user interactions followed after the first run of the script
MaxInteractions == 2

\* longest charge list handed to the evaluator on its own
MaxListLen == 3

----------------------------------------------------------------------------
(***************************************************************************)
(* Floating-point arithmetic (numpy float64 semantics at Prec bits).       *)
(***************************************************************************)
Pow2Tab == [k \in 0..30 |-> 2^k]

Pow2(k) == Pow2Tab[k]

Abs(n) == IF n < 0 THEN -n ELSE n

Sgn(n) == IF n < 0 THEN -1 ELSE IF n > 0 THEN 1 ELSE 0

\* the number of binary digits of n >= 0 (0 for 0), by bisection
BitLen(n) ==
  IF n < 32768
  THEN IF n < 128
       THEN IF n < 8
            THEN IF n < 2
                 THEN IF n < 1
                      THEN 0
                      ELSE 1
                 ELSE IF n < 4
                      THEN 2
                      ELSE 3
            ELSE IF n < 32
                 THEN IF n < 16
                      THEN 4
                      ELSE 5
                 ELSE IF n < 64
                      THEN 6
                      ELSE 7
       ELSE IF n < 2048
            THEN IF n < 512
                 THEN IF n < 256
                      THEN 8
                      ELSE 9
                 ELSE IF n < 1024
                      THEN 10
                      ELSE 11
            ELSE IF n < 8192
                 THEN IF n < 4096
                      THEN 12
                      ELSE 13
                 ELSE IF n < 16384
                      THEN 14
                      ELSE 15
  ELSE IF n < 8388608
       THEN IF n < 524288
            THEN IF n < 131072
                 THEN IF n < 65536
                      THEN 16
                      ELSE 17
                 ELSE IF n < 262144
                      THEN 18
                      ELSE 19
            ELSE IF n < 2097152
                 THEN IF n < 1048576
                      THEN 20
                      ELSE 21
                 ELSE IF n < 4194304
                      THEN 22
                      ELSE 23
       ELSE IF n < 134217728
            THEN IF n < 33554432
                 THEN IF n < 16777216
                      THEN 24
                      ELSE 25
                 ELSE IF n < 67108864
                      THEN 26
                      ELSE 27
            ELSE IF n < 536870912
                 THEN IF n < 268435456
                      THEN 28
                      ELSE 29
                 ELSE IF n < 1073741824
                      THEN 30
                      ELSE 31

SpecialExp == 2^20

NaN == <<0, SpecialExp>>

Inf(s) == <<s, SpecialExp>>

Zero == <<0, 0>>

IsFinite(x) == x[2] # SpecialExp

IsNaN(x) == x = NaN

\* Every floating-point number of the model, and Inf and NaN
Float == Int \X Int

\* n * 2^e rounded to Prec significant bits, round-half-to-even
Round(n, e) ==
  IF n = 0 THEN Zero
  ELSE LET a == Abs(n)
           s == BitLen(a) - Prec
       IN IF s <= 0 THEN <<n * Pow2(-s), e + s>>
          ELSE LET q  == a \div Pow2(s)
                   r  == a % Pow2(s)
                   h  == Pow2(s - 1)
                   q2 == IF r > h \/ (r = h /\ q % 2 = 1) THEN q + 1 ELSE q
               IN IF q2 = Pow2(Prec) THEN <<Sgn(n) * Pow2(Prec - 1), e + s + 1>>
                  ELSE <<Sgn(n) * q2, e + s>>

FromInt(n) == Round(n, 0)

Neg(x) == IF IsNaN(x) THEN NaN ELSE <<-x[1], x[2]>>

FAbs(x) == <<Abs(x[1]), x[2]>>

\* x + y, correctly rounded
FAddOf[x \in Float, y \in Float] ==
  IF IsNaN(x) \/ IsNaN(y) THEN NaN
  ELSE IF ~IsFinite(x) THEN (IF ~IsFinite(y) /\ y[1] # x[1] THEN NaN ELSE x)
  ELSE IF ~IsFinite(y) THEN y
  ELSE IF x[1] = 0 THEN y
  ELSE IF y[1] = 0 THEN x
  ELSE LET hi == IF x[2] >= y[2] THEN x ELSE y
           lo == IF x[2] >= y[2] THEN y ELSE x
           d  == hi[2] - lo[2]
       IN IF d > Prec + 1
          THEN Round(hi[1] * 8 + Sgn(lo[1]), hi[2] - 3)
          ELSE Round(hi[1] * Pow2(d) + lo[1], lo[2])

FAdd(x, y) == FAddOf[x, y]

FSub(x, y) == FAdd(x, Neg(y))

\* x * y, correctly rounded
FMulOf[x \in Float, y \in Float] ==
  IF IsNaN(x) \/ IsNaN(y) THEN NaN
  ELSE IF ~IsFinite(x) \/ ~IsFinite(y)
       THEN (IF x[1] = 0 \/ y[1] = 0 THEN NaN ELSE Inf(Sgn(x[1]) * Sgn(y[1])))
  ELSE Round(x[1] * y[1], x[2] + y[2])

FMul(x, y) == FMulOf[x, y]

\* x / y, correctly rounded; x / 0 is Inf (NaN for 0 / 0), as numpy gives
FDivOf[x \in Float, y \in Float] ==
  IF IsNaN(x) \/ IsNaN(y) THEN NaN
  ELSE IF ~IsFinite(x) THEN (IF ~IsFinite(y) THEN NaN
                             ELSE Inf(Sgn(x[1]) * (IF y[1] < 0 THEN -1 ELSE 1)))
  ELSE IF ~IsFinite(y) THEN Zero
  ELSE IF y[1] = 0 THEN (IF x[1] = 0 THEN NaN ELSE Inf(Sgn(x[1])))
  ELSE IF x[1] = 0 THEN Zero
  ELSE LET num == Abs(x[1]) * Pow2(Prec + 1)
           den == Abs(y[1])
           q   == num \div den
           st  == IF num % den = 0 THEN 0 ELSE 1
       IN Round(Sgn(x[1]) * Sgn(y[1]) * (2 * q + st), x[2] - y[2] - Prec - 2)

FDiv(x, y) == FDivOf[x, y]

RECURSIVE ISqrtBits(_, _, _)
\* largest s with s * s <= n, built bit by bit from bit b downwards
ISqrtBits(n, s, b) ==
  IF b < 0 THEN s
  ELSE LET t == s + Pow2(b)
       IN ISqrtBits(n, IF t * t <= n THEN t ELSE s, b - 1)

\* for 2^(2 Prec) <= n < 2^(2 Prec + 2): the root has bit Prec set
ISqrt(n) == ISqrtBits(n, Pow2(Prec), Prec - 1)

\* sqrt(x), correctly rounded; NaN for x < 0
FSqrtOf[x \in Float] ==
  IF IsNaN(x) THEN NaN
  ELSE IF x[1] < 0 THEN NaN
  ELSE IF ~IsFinite(x) THEN x
  ELSE IF x[1] = 0 THEN Zero
  ELSE LET t  == IF (x[2] - (Prec + 1)) % 2 = 0 THEN Prec + 1 ELSE Prec + 2
           n  == x[1] * Pow2(t)
           s  == ISqrt(n)
           st == IF s * s = n THEN 0 ELSE 1
       IN Round(2 * s + st, ((x[2] - t) \div 2) - 1)

FSqrt(x) == FSqrtOf[x]

\* x < y on floats (FALSE when either is NaN, as in IEEE 754); mantissas are
\* normalised, so finite numbers of one sign order by exponent, then mantissa
FLtOf[x \in Float, y \in Float] ==
  IF IsNaN(x) \/ IsNaN(y) THEN FALSE
  ELSE IF ~IsFinite(x) THEN x[1] < 0 /\ x # y
  ELSE IF ~IsFinite(y) THEN y[1] > 0
  ELSE IF x[1] = 0 THEN y[1] > 0
  ELSE IF y[1] = 0 THEN x[1] < 0
  ELSE IF (x[1] < 0) # (y[1] < 0) THEN x[1] < 0
  ELSE IF x[1] > 0 THEN x[2] < y[2] \/ (x[2] = y[2] /\ x[1] < y[1])
  ELSE x[2] > y[2] \/ (x[2] = y[2] /\ x[1] < y[1])

FLt(x, y) == FLtOf[x, y]

FLe(x, y) == ~IsNaN(x) /\ ~IsNaN(y) /\ (x = y \/ FLt(x, y))

\* floor(x) as an integer, for finite x >= 0
FloorInt(x) == IF x[2] >= 0 THEN x[1] * Pow2(x[2]) ELSE x[1] \div Pow2(-x[2])

\* n / 2^j, for literals that are dyadic fractions
Dyadic(n, j) == Round(n, -j)

----------------------------------------------------------------------------
(***************************************************************************)
(* The numeric literals of the script.                                     *)
(***************************************************************************)
\* k = 8.99e9 = 70234375 * 2^7
k == Round(70234375, 7)

\* the literal 0.1 of the guard on r
Tenth == FDiv(FromInt(1), FromInt(10))

\* the literal 0.01 of the guard on r2
Hundredth == FDiv(FromInt(1), FromInt(100))

----------------------------------------------------------------------------
(***************************************************************************)
(* calculate_field_and_potential                                           *)
(***************************************************************************)
\* A Python assignment evaluates its right-hand side once.  Let(v, F) is F(v)
\* with v evaluated once and then used by value.
Let(v, F(_)) == CHOOSE r \in {F(b) : b \in {v}} : TRUE

\* A numpy array holds its elements: they are computed once, when the array is
\* made (the comparison makes TLC enumerate the function there and then).
Array(f) == CHOOSE r \in {b \in {f} : b = b} : TRUE

\* np.linspace(start, stop, num): i * step + start, the last sample set to stop
linspace(start, stop, num) ==
  Let(FDiv(FSub(stop, start), FromInt(num - 1)), LAMBDA step :
    Array([i \in 1..num |->
             IF i = num /\ num > 1 THEN stop
             ELSE FAdd(FMul(FromInt(i - 1), step), start)]))

\* np.meshgrid(x, y): X[row, col] = x[col], Y[row, col] = y[row]
meshgrid(x, y) ==
  Array([p \in (DOMAIN y) \X (DOMAIN x) |-> [X |-> x[p[2]], Y |-> y[p[1]]]])

\* np.zeros(X.shape), for each of Ex, Ey and V
zeros(g) == Array([p \in DOMAIN g |-> [Ex |-> Zero, Ey |-> Zero, V |-> Zero]])

\* a guard that is not there: the array stays as it is
Unguarded(r2) == r2

\* the guard of r with the threshold of r2: r[r < 0.01] = 0.01
ClampRAtHundredth(r) == IF FLt(r, Hundredth) THEN Hundredth ELSE r

\* r[r < 0.1] = 0.1
ClampR(r) == IF FLt(r, Tenth) THEN Tenth ELSE r

\* r2[r2 < 0.01] = 0.01
ClampR2(r2) == IF FLt(r2, Hundredth) THEN Hundredth ELSE r2

\* the offset with the sign of the centre lost: X + xc
OffsetSum(coordinate, centre) == FAdd(coordinate, centre)

\* dx = X - xc, dy = Y - yc
Offset(coordinate, centre) == FSub(coordinate, centre)

\* dx, dy, r2 and r of one grid point from one charge; r and r2 after the guard
Distances(charge, Xp, Yp) ==
  Let(Offset(Xp, charge.x), LAMBDA dx :
  Let(Offset(Yp, charge.y), LAMBDA dy :
  Let(FAdd(FMul(dx, dx), FMul(dy, dy)), LAMBDA r2 :
  Let(FSqrt(r2), LAMBDA r :
    [dx |-> dx, dy |-> dy, r |-> ClampR(r), r2 |-> ClampR2(r2)]))))

\* the potential term without the magnitude: k / r
PotentialTermOfUnitCharge(q, r) == FDiv(k, r)

\* the potential term without the sign of the charge: k * |q| / r
PotentialTermUnsigned(q, r) == FDiv(FMul(k, FAbs(q)), r)

\* the potential one charge adds at one grid point: k * q / r
PotentialTerm(q, r) == FDiv(FMul(k, q), r)

\* what one charge adds to Ex, Ey and V at one grid point (the loop body at one
\* array element)
Contribution(charge, Xp, Yp) ==
  Let(Distances(charge, Xp, Yp), LAMBDA d :
  Let(FDiv(FMul(k, charge.q), d.r2), LAMBDA E_mag :
    [Ex |-> FMul(E_mag, FDiv(d.dx, d.r)),
     Ey |-> FMul(E_mag, FDiv(d.dy, d.r)),
     V  |-> PotentialTerm(charge.q, d.r)]))

\* Ex = ..., Ey = ... for Ex += ..., Ey += ...: the field components are
\* assigned, only V is accumulated
AssignField(a, c) == [Ex |-> c.Ex, Ey |-> c.Ey, V |-> FAdd(a.V, c.V)]

\* Ex += ..., Ey += ..., V += ... at one array element
AddTo(a, c) ==
  [Ex |-> FAdd(a.Ex, c.Ex), Ey |-> FAdd(a.Ey, c.Ey), V |-> FAdd(a.V, c.V)]

\* an iteration that assigns the three arrays where it should add to them
Overwrite(acc, charge, g) ==
  Array([p \in DOMAIN g |-> Contribution(charge, g[p].X, g[p].Y)])

\* one iteration of "for charge in charges" over the whole arrays
Accumulate(acc, charge, g) ==
  Let(acc, LAMBDA before :
    Array([p \in DOMAIN g |->
             Let(Contribution(charge, g[p].X, g[p].Y), LAMBDA c :
               AddTo(before[p], c))]))

RECURSIVE Superpose(_, _, _, _)
\* the loop over charges[i..], in list order
Superpose(acc, charges, i, g) ==
  IF i > Len(charges) THEN acc
  ELSE Superpose(Accumulate(acc, charges[i], g), charges, i + 1, g)

\* lines 37-67.  The five returned arrays are kept as one array of samples:
\* the element at <<row, col>> holds X, Y, Ex, Ey and V of that grid point.
Fields(charges, grid_size, range_val) ==
  Let(linspace(Neg(range_val), range_val, grid_size), LAMBDA x :
  Let(linspace(Neg(range_val), range_val, grid_size), LAMBDA y :
  Let(meshgrid(x, y), LAMBDA g :
  Let(Superpose(zeros(g), charges, 1, g), LAMBDA acc :
    Array([p \in DOMAIN g |->
             [X |-> g[p].X, Y |-> g[p].Y,
              Ex |-> acc[p].Ex, Ey |-> acc[p].Ey, V |-> acc[p].V]])))))

\* an evaluator that takes the charges off the caller's list as it goes
\* (while charges: charge = charges.pop(0))
calculate_and_pop(charges, grid_size, range_val) ==
  [field |-> Fields(charges, grid_size, range_val), charges |-> << >>]

\* the call: what it returns, and the caller's list as the call leaves it (the
\* body only reads the list and the records in it)
calculate_field_and_potential(charges, grid_size, range_val) ==
  [field |-> Fields(charges, grid_size, range_val), charges |-> charges]

----------------------------------------------------------------------------
(***************************************************************************)
(* The rendering step that follows the computation (lines 81-83).          *)
(***************************************************************************)
\* the elements of a square array in row-major order (numpy flattens the array)
Flatten(a) ==
  Let(CHOOSE n \in 1..Cardinality(DOMAIN a) : n * n = Cardinality(DOMAIN a),
      LAMBDA n : Array([i \in 1..(n * n) |->
                          a[<<((i - 1) \div n) + 1, ((i - 1) % n) + 1>>]]))

\* a sequence in ascending order (np.percentile orders a copy): element i goes
\* to the place after the smaller elements and the equal ones before it
Sorted(s) ==
  Let(Array([i \in DOMAIN s |->
               Cardinality({j \in DOMAIN s :
                              FLt(s[j], s[i]) \/ (j < i /\ s[j] = s[i])}) + 1]),
      LAMBDA place :
        Array([o \in DOMAIN s |-> s[CHOOSE i \in DOMAIN s : place[i] = o]]))

\* a + (b - a) * t, computed from the upper end when t >= 0.5 (numpy's _lerp)
Lerp(lo, hi, gamma) ==
  IF FLt(gamma, Dyadic(1, 1))
  THEN FAdd(lo, FMul(FSub(hi, lo), gamma))
  ELSE FSub(hi, FMul(FSub(hi, lo), FSub(FromInt(1), gamma)))

\* np.percentile(a, pct), linear interpolation between the two order statistics
\* around the virtual index (n - 1) * pct / 100
percentile(a, pct) ==
  Let(Sorted(Flatten(a)), LAMBDA srt :
  Let(FMul(FromInt(Len(srt) - 1), FDiv(FromInt(pct), FromInt(100))), LAMBDA virt :
  Let(FloorInt(virt), LAMBDA prev :
    Lerp(srt[prev + 1],
         srt[(IF prev + 1 > Len(srt) - 1 THEN Len(srt) - 1 ELSE prev + 1) + 1],
         FSub(virt, FromInt(prev))))))

\* v_max = np.percentile(np.abs(V), 98)
VMaxOf(samples) ==
  percentile(Array([p \in DOMAIN samples |-> FAbs(samples[p].V)]), 98)

\* levels = np.linspace(-v_max, v_max, 40)
LevelsOf(vmax) == linspace(Neg(vmax), vmax, 40)

\* ax.contourf(..., levels=levels, ...) raises ValueError unless the levels
\* are strictly increasing
Contourf(levels) ==
  Let(levels, LAMBDA lv :
    IF \A i \in 1..(Len(lv) - 1) : FLt(lv[i], lv[i + 1])
    THEN "drawn" ELSE "ValueError")

----------------------------------------------------------------------------
(***************************************************************************)
(* The sidebar: the widgets and the charge list built from them.           *)
(***************************************************************************)
\* st.sidebar.slider("...", 1, 5, 2)
MinCharges == 1

MaxCharges == 5

DefaultCharges == 2

\* the limits -5.0, 5.0 of the Q slider and of the X and Y number inputs
LowerLimit == -5

UpperLimit == 5

\* a widget delivers only values within its limits
WithinLimits(v) == FLe(FromInt(LowerLimit), v) /\ FLe(v, FromInt(UpperLimit))

\* default_x and default_q of widget i (i counts from 1 here, from 0 in the script)
default_x(i) == IF i = 1 THEN FromInt(-2) ELSE IF i = 2 THEN FromInt(2) ELSE Zero

default_q(i) == IF i = 1 THEN FromInt(1) ELSE IF i = 2 THEN FromInt(-1) ELSE FromInt(1)

DefaultWidget(i) == [q |-> default_q(i), x |-> default_x(i), y |-> Zero]

\* the values a user may try to give a magnitude or a coordinate
QTried == {FromInt(-6), FromInt(-1), Zero, FromInt(1)}

XTried == {FromInt(-2), Zero, FromInt(2), FromInt(6)}

YTried == {FromInt(-6), Zero, FromInt(5)}

\* range_val = 5
range_val == FromInt(5)

\* a list that is not emptied: the entries of the pass before stay in it
KeepList(previous) == previous

\* charges = []
EmptyList(previous) == << >>

RECURSIVE AppendCharges(_, _, _, _)
\* for i in range(num_charges): charges.append({'q': q, 'x': x, 'y': y})
AppendCharges(list, session, i, n) ==
  IF i > n THEN list
  ELSE AppendCharges(Append(list, [q |-> session[i].q, x |-> session[i].x,
                                   y |-> session[i].y]),
                     session, i + 1, n)

VARIABLES
  num_charges,   \* the value of the count slider
  session,       \* the widget values kept under the keys q_i, x_i, y_i
  charges,       \* the module-level list of the last pass
  field,         \* X, Y, Ex, Ey, V of the last pass
  v_max,         \* the 98th percentile of |V| of the last pass
  contour,       \* what contourf did in the last pass
  passes,        \* history: the charge list and the arrays of every pass so far
  call,          \* evaluator called on its own: the arguments
  ret,           \* its result
  call0,         \* the arguments of the call before
  ret0,          \* the result of the call before
  pc             \* where the caller stands

vars == <<num_charges, session, charges, field, v_max, contour, passes,
          call, ret, call0, ret0, pc>>

appVars == <<num_charges, session, charges, field, v_max, contour, passes>>

evalVars == <<call, ret, call0, ret0, pc>>

\* lines 75-83 of a run: the arrays come back, v_max and the levels are taken
\* from them and the contour is drawn
Render(res) ==
  /\ charges' = res.charges
  /\ field' = res.field
  /\ v_max' = VMaxOf(field')
  /\ contour' = Contourf(LevelsOf(v_max'))

\* one run of the script, top to bottom, on the widget values n and s; "before"
\* is the charge list the previous run left behind
Run(n, s, before) ==
  \E res \in {calculate_field_and_potential(
                AppendCharges(EmptyList(before), s, 1, n),
                AppGridSize, range_val)} : Render(res)

\* a run triggered by an interaction
Pass(n, s) ==
  /\ num_charges' = n
  /\ session' = s
  /\ Run(n, s, charges)
  /\ passes' = Append(passes, [charges |-> charges', field |-> field'])

\* a widget that is not drawn in a run loses its stored value; a widget that is
\* drawn for the first time starts from its default
Resized(s, n) ==
  [i \in 1..n |-> IF i <= Len(s) THEN s[i] ELSE DefaultWidget(i)]

\* the result of the first run of the script, all widgets at their defaults
FirstRun(res) ==
  /\ charges = res.charges
  /\ field = res.field
  /\ v_max = VMaxOf(field)
  /\ contour = Contourf(LevelsOf(v_max))
  /\ passes = <<[charges |-> charges, field |-> field]>>

\* the script has run once
AppInit ==
  /\ num_charges = DefaultCharges
  /\ session = [i \in 1..DefaultCharges |-> DefaultWidget(i)]
  /\ \E res \in {calculate_field_and_potential(
                   AppendCharges(<< >>, session, 1, num_charges),
                   AppGridSize, range_val)} : FirstRun(res)

Init ==
  /\ AppInit
  /\ call = << >> /\ ret = << >> /\ call0 = << >> /\ ret0 = << >>
  /\ pc = "app"

\* the user moves the count slider
SetNumCharges(n) ==
  /\ Len(passes) <= MaxInteractions
  /\ n # num_charges
  /\ Pass(n, Resized(session, n))
  /\ UNCHANGED evalVars

\* the user moves the magnitude slider of charge i
SetQ(i, v) ==
  /\ Len(passes) <= MaxInteractions
  /\ WithinLimits(v)
  /\ v # session[i].q
  /\ Pass(num_charges, [session EXCEPT ![i].q = v])
  /\ UNCHANGED evalVars

\* the user edits the X number input of charge i
SetX(i, v) ==
  /\ Len(passes) <= MaxInteractions
  /\ WithinLimits(v)
  /\ v # session[i].x
  /\ Pass(num_charges, [session EXCEPT ![i].x = v])
  /\ UNCHANGED evalVars

\* the user edits the Y number input of charge i
SetY(i, v) ==
  /\ Len(passes) <= MaxInteractions
  /\ WithinLimits(v)
  /\ v # session[i].y
  /\ Pass(num_charges, [session EXCEPT ![i].y = v])
  /\ UNCHANGED evalVars

Next ==
  \/ \E n \in MinCharges..MaxCharges : SetNumCharges(n)
  \/ \E i \in 1..num_charges, v \in QTried : SetQ(i, v)
  \/ \E i \in 1..num_charges, v \in XTried : SetX(i, v)
  \/ \E i \in 1..num_charges, v \in YTried : SetY(i, v)

Spec == Init /\ [][Next]_vars

----------------------------------------------------------------------------
(***************************************************************************)
(* The evaluator called on its own, on bounded inputs.                     *)
(***************************************************************************)
Charge(q, x, y) == [q |-> q, x |-> x, y |-> y]

\* the charges the lists are made of: a unit charge on the centre grid point,
\* its opposite at the same place, and a unit charge off the grid points
ChargePool ==
  {Charge(FromInt(1), Zero, Zero),
   Charge(FromInt(-1), Zero, Zero),
   Charge(FromInt(1), FromInt(-2), Zero)}

\* all charge lists of at most MaxListLen entries over the pool
PoolLists ==
  UNION {[1..n -> ChargePool] : n \in 0..MaxListLen}

Arguments(list, grid_size, rv) ==
  [charges |-> list, grid_size |-> grid_size, range_val |-> rv]

\* the script's default pair of charges
Dipole == <<Charge(FromInt(1), FromInt(-2), Zero), Charge(FromInt(-1), FromInt(2), Zero)>>

\* a pair q, -q with a grid point of the 3 x 3 grid at equal distance from both
\* ((-5, 0): the squared distances are 225/8 both)
SkewPair ==
  <<Charge(FromInt(1), Dyadic(-5, 2), Dyadic(15, 2)),
    Charge(FromInt(-1), Dyadic(1, 2), Dyadic(3, 2))>>

\* a single positive charge at the origin
Origin(q) == <<Charge(q, Zero, Zero)>>

\* further calls: the grids on which the claims about particular charge lists
\* are decided (a grid finer than the clamp radius among them)
Scenarios ==
  {Arguments(Dipole, 10, range_val),
   Arguments(Dipole, 3, range_val),
   Arguments(Dipole, 4, range_val),
   Arguments(SkewPair, 3, range_val),
   Arguments(Origin(FromInt(1)), 5, Dyadic(1, 3)),
   Arguments(Origin(FromInt(5)), 4, range_val),
   Arguments(Origin(FromInt(3)), 7, range_val)}

EvalInputs ==
  {Arguments(L, AppGridSize, range_val) : L \in PoolLists} \cup Scenarios

\* where a charge of magnitude zero is put: on a grid point and off the grid
ZeroPlaces == {<<Zero, Zero>>, <<Dyadic(5, 1), Dyadic(-5, 2)>>}

InitEval ==
  /\ AppInit
  /\ call \in EvalInputs
  /\ ret = << >> /\ call0 = << >> /\ ret0 = << >>
  /\ pc = "ready"

\* the call and its return
Returned(args) ==
  /\ call' = args
  /\ \E res \in {calculate_field_and_potential(args.charges, args.grid_size,
                                               args.range_val)} : ret' = res

\* calculate_field_and_potential(charges, grid_size, range_val)
Evaluate ==
  /\ pc = "ready"
  /\ Returned(call)
  /\ pc' = "returned"
  /\ UNCHANGED <<call0, ret0>>
  /\ UNCHANGED appVars

\* the same call with the charge list rearranged
EvaluatePermuted(perm) ==
  /\ pc = "returned"
  /\ call0' = call /\ ret0' = ret
  /\ Returned([call EXCEPT !.charges = [i \in 1..Len(call.charges) |->
                                          call.charges[perm[i]]]])
  /\ call' # call
  /\ pc' = "permuted"
  /\ UNCHANGED appVars

\* the same call with a charge of magnitude zero appended to the list
EvaluateWithZeroCharge(x, y) ==
  /\ pc = "returned"
  /\ call0' = call /\ ret0' = ret
  /\ Returned([call EXCEPT !.charges = Append(call.charges, Charge(Zero, x, y))])
  /\ pc' = "extended"
  /\ UNCHANGED appVars

NextEval ==
  \/ Evaluate
  \/ \E perm \in Permutations(1..Len(call.charges)) : EvaluatePermuted(perm)
  \/ \E place \in ZeroPlaces : EvaluateWithZeroCharge(place[1], place[2])

SpecEval == InitEval /\ [][NextEval]_vars

----------------------------------------------------------------------------
(***************************************************************************)
(* Properties of the evaluator (checked under SpecEval).                   *)
(***************************************************************************)
\* the evaluator has returned from the call in "call"
HasReturned == pc \in {"returned", "permuted", "extended"}

Components == {"Ex", "Ey", "V"}

\* the charge sits exactly on the grid point
OnPoint(charge, sample) == charge.x = sample.X /\ charge.y = sample.Y

\* C1: at every grid point and for every charge of the list, the divisors r and
\* r2 used after the guard are at least 0.1 and 0.01, and the returned Ex, Ey
\* and V are finite (neither infinite nor NaN) at every grid point, also where a
\* grid point coincides with a charge or lies closer than 0.1 to it.
C1_DivisorsGuardedResultsFinite ==
  HasReturned =>
    \A p \in DOMAIN ret.field :
      /\ \A i \in 1..Len(call.charges) :
           \A d \in {Distances(call.charges[i], ret.field[p].X, ret.field[p].Y)} :
             FLe(Tenth, d.r) /\ FLe(Hundredth, d.r2)
      /\ \A c \in Components : IsFinite(ret.field[p][c])

\* a grid point coincides with a charge of the list and the result there is
\* finite and not zero
C1_Witness ==
  /\ pc = "returned"
  /\ \E p \in DOMAIN ret.field :
       /\ \E i \in 1..Len(call.charges) : OnPoint(call.charges[i], ret.field[p])
       /\ IsFinite(ret.field[p].V) /\ ret.field[p].V # Zero

\* the sum of |contribution| of the charges of a list to component c at a point
RECURSIVE AbsSum(_, _, _, _)
AbsSum(list, sample, c, i) ==
  IF i = 0 THEN Zero
  ELSE FAdd(AbsSum(list, sample, c, i - 1),
            FAbs(Contribution(list[i], sample.X, sample.Y)[c]))

\* a and b differ by at most n * 2^(1 - Prec) * scale
Close(a, b, n, scale) ==
  FLe(FAbs(FSub(a, b)), FMul(FMul(FromInt(n), Dyadic(1, Prec - 1)), scale))

\* C2 as stated: a rearranged list gives the same Ex, Ey and V at every grid
\* point.
C2_PermutationSameResult ==
  pc = "permuted" =>
    \A p \in DOMAIN ret.field :
      \A c \in Components : ret.field[p][c] = ret0.field[p][c]

\* C2, amended: a rearranged list gives the same Ex, Ey and V at every grid
\* point when the list has at most two charges; for longer lists the two
\* results agree within the rounding tolerance n * 2^(1 - Prec) * (sum of the
\* magnitudes of the n contributions).
C2_PermutationWithinRounding ==
  pc = "permuted" =>
    \A p \in DOMAIN ret.field :
      \A c \in Components :
        /\ Len(call.charges) <= 2 => ret.field[p][c] = ret0.field[p][c]
        /\ Close(ret.field[p][c], ret0.field[p][c], Len(call.charges),
                 AbsSum(call.charges, ret.field[p], c, Len(call.charges)))

\* a list of three charges has been rearranged and the results differ
C2_Witness ==
  /\ pc = "permuted"
  /\ Len(call.charges) >= 3
  /\ \E p \in DOMAIN ret.field : ret.field[p].V # ret0.field[p].V

\* every charge of the list has magnitude zero
AllZero(list) == \A i \in 1..Len(list) : list[i].q = Zero

\* C3: a charge of magnitude zero appended to a list, wherever it is put,
\* leaves Ex, Ey and V as they are at every grid point, and a list of only
\* zero charges gives Ex = Ey = V = 0 everywhere.
C3_ZeroChargeAddsNothing ==
  /\ pc = "extended" =>
       \A p \in DOMAIN ret.field :
         \A c \in Components : ret.field[p][c] = ret0.field[p][c]
  /\ (HasReturned /\ AllZero(call.charges)) =>
       \A p \in DOMAIN ret.field :
         \A c \in Components : ret.field[p][c] = Zero

\* a zero charge was put on a grid point, after charges that give a field there
C3_Witness ==
  /\ pc = "extended"
  /\ \E p \in DOMAIN ret.field :
       /\ OnPoint(call.charges[Len(call.charges)], ret.field[p])
       /\ ret.field[p].V # Zero

\* the arrays returned for the one-element lists [c], c in the list
Singles(args) ==
  Array([i \in 1..Len(args.charges) |->
           calculate_field_and_potential(<<args.charges[i]>>, args.grid_size,
                                         args.range_val).field])

\* the sum, in list order, of component c of the first i single-charge results
RECURSIVE SumOfSingles(_, _, _, _)
SumOfSingles(singles, p, c, i) ==
  IF i = 0 THEN Zero
  ELSE FAdd(SumOfSingles(singles, p, c, i - 1), singles[i][p][c])

\* the list is two charges at the same position
Coincident(list) ==
  Len(list) = 2 /\ list[1].x = list[2].x /\ list[1].y = list[2].y

\* C9: the guard acts on each charge's own distances before its contribution is
\* added: Ex, Ey and V returned for a list equal, at every grid point, the sum
\* (taken in list order) of the Ex, Ey and V returned for the one-element lists
\* of its charges; q and -q at one position give zero everywhere, and two equal
\* charges at one position give twice the single-charge result.
C9_SumOfSingleChargeResults ==
  HasReturned =>
    \A singles \in {Singles(call)} :
      \A p \in DOMAIN ret.field :
        \A c \in Components :
          /\ ret.field[p][c] = SumOfSingles(singles, p, c, Len(call.charges))
          /\ (Coincident(call.charges)
                /\ call.charges[1].q = Neg(call.charges[2].q))
               => ret.field[p][c] = Zero
          /\ (Coincident(call.charges)
                /\ call.charges[1].q = call.charges[2].q)
               => ret.field[p][c] = FMul(FromInt(2), singles[1][p][c])

\* two equal charges sit on one grid point (inside the clamp radius)
C9_Witness ==
  /\ pc = "returned"
  /\ Coincident(call.charges)
  /\ call.charges[1].q = call.charges[2].q
  /\ \E p \in DOMAIN ret.field :
       /\ OnPoint(call.charges[1], ret.field[p])
       /\ ret.field[p].V # Zero

\* Exact arithmetic on coordinates, in units of 2^-10: the number x stands for,
\* where it is a whole number of units
IsScaled(x) ==
  \/ x = Zero
  \/ IsFinite(x) /\ x[2] + 10 >= 0 /\ x[2] <= 4
  \/ IsFinite(x) /\ x[2] + 10 < 0 /\ x[2] + 10 >= -Prec
       /\ x[1] % Pow2(-(x[2] + 10)) = 0

Scaled(x) ==
  IF x = Zero THEN 0
  ELSE IF x[2] + 10 >= 0 THEN x[1] * Pow2(x[2] + 10)
  ELSE x[1] \div Pow2(-(x[2] + 10))

\* the exact squared distance between a charge and a grid point, in units
ExactDist2(charge, sample) ==
  (Scaled(sample.X) - Scaled(charge.x)) * (Scaled(sample.X) - Scaled(charge.x))
  + (Scaled(sample.Y) - Scaled(charge.y)) * (Scaled(sample.Y) - Scaled(charge.y))

ExactlyPlaced(list, sample) ==
  /\ IsScaled(sample.X) /\ IsScaled(sample.Y)
  /\ \A i \in 1..Len(list) : IsScaled(list[i].x) /\ IsScaled(list[i].y)

\* two charges q and -q
OppositePair(list) ==
  Len(list) = 2 /\ list[1].q = Neg(list[2].q) /\ list[1].q # Zero

\* the grid point is at the same exact distance from both charges of the pair
Equidistant(list, sample) ==
  /\ ExactlyPlaced(list, sample)
  /\ ExactDist2(list[1], sample) = ExactDist2(list[2], sample)

\* the grid point is the exact midpoint of the two charges
Midpoint(list, sample) ==
  /\ ExactlyPlaced(list, sample)
  /\ 2 * Scaled(sample.X) = Scaled(list[1].x) + Scaled(list[2].x)
  /\ 2 * Scaled(sample.Y) = Scaled(list[1].y) + Scaled(list[2].y)

\* C4 as stated: for charges q and -q, V is exactly zero at every sampled grid
\* point at equal distance from the two charges (the midpoint among them).
C4_ZeroWhereEquidistant ==
  (HasReturned /\ OppositePair(call.charges)) =>
    \A p \in DOMAIN ret.field :
      Equidistant(call.charges, ret.field[p]) => ret.field[p].V = Zero

\* C4, amended: for charges q and -q, V is exactly zero at a sampled grid point
\* that is the midpoint of the two charges and wherever the two guarded
\* distances, as computed, are the same number; at any other sampled point at
\* equal distance from the two charges V is zero only up to rounding: |V| is at
\* most 2^(4 - Prec) * |k q / r|.
C4_ZeroAtMidpointAndEqualComputedDistance ==
  (HasReturned /\ OppositePair(call.charges)) =>
    \A p \in DOMAIN ret.field :
      \A d1 \in {Distances(call.charges[1], ret.field[p].X, ret.field[p].Y)} :
        \A d2 \in {Distances(call.charges[2], ret.field[p].X, ret.field[p].Y)} :
          /\ Midpoint(call.charges, ret.field[p]) => ret.field[p].V = Zero
          /\ d1.r = d2.r => ret.field[p].V = Zero
          /\ Equidistant(call.charges, ret.field[p]) =>
               FLe(FAbs(ret.field[p].V),
                   FMul(Dyadic(1, Prec - 4),
                        FAbs(FDiv(FMul(k, call.charges[1].q), d1.r))))

\* a pair q, -q apart from each other has its midpoint on the grid, and V is
\* zero there
C4_Witness ==
  /\ pc = "returned"
  /\ OppositePair(call.charges)
  /\ ~Coincident(call.charges)
  /\ \E p \in DOMAIN ret.field :
       Midpoint(call.charges, ret.field[p]) /\ ret.field[p].V = Zero

\* a single positive charge at the origin
SingleAtOrigin(list) ==
  /\ Len(list) = 1
  /\ FLt(Zero, list[1].q)
  /\ list[1].x = Zero /\ list[1].y = Zero

\* the distance of a grid point from the origin as the evaluator computes it
ComputedR(sample) ==
  FSqrt(FAdd(FMul(sample.X, sample.X), FMul(sample.Y, sample.Y)))

\* the exact distance from the origin is at least 0.1 (102.4 units: the squared
\* distance, a whole number of square units, is at least 10485.76)
OutsideClamp(list, sample) ==
  ExactlyPlaced(list, sample) /\ ExactDist2(list[1], sample) >= 10486

\* C5 as stated: for a single positive charge at the origin, V = k q / r at the
\* sampled points at distance r >= 0.1, and of two sampled points the one
\* nearer to the origin has the strictly greater V.
C5_InverseDistanceStrictlyDecreasing ==
  (HasReturned /\ SingleAtOrigin(call.charges)) =>
    /\ \A p \in DOMAIN ret.field :
         OutsideClamp(call.charges, ret.field[p]) =>
           ret.field[p].V = FDiv(FMul(k, call.charges[1].q), ComputedR(ret.field[p]))
    /\ \A p1, p2 \in DOMAIN ret.field :
         (/\ ExactlyPlaced(call.charges, ret.field[p1])
          /\ ExactlyPlaced(call.charges, ret.field[p2])
          /\ ExactDist2(call.charges[1], ret.field[p1])
               < ExactDist2(call.charges[1], ret.field[p2]))
           => FLt(ret.field[p2].V, ret.field[p1].V)

\* C5, amended: for a single positive charge at the origin, V = k q / r at the
\* sampled points whose computed distance r is at least 0.1 and V = k q / 0.1
\* at the others, and V does not increase with the computed distance: of two
\* sampled points the one with the smaller computed distance has a V at least
\* as great (equal inside the clamp radius, and where rounding makes the
\* quotients equal).
C5_InverseDistanceNonIncreasing ==
  (HasReturned /\ SingleAtOrigin(call.charges)) =>
    /\ \A p \in DOMAIN ret.field :
         \A r \in {ComputedR(ret.field[p])} :
           ret.field[p].V = FDiv(FMul(k, call.charges[1].q),
                                 IF FLt(r, Tenth) THEN Tenth ELSE r)
    /\ \A p1, p2 \in DOMAIN ret.field :
         FLe(ComputedR(ret.field[p1]), ComputedR(ret.field[p2]))
           => FLe(ret.field[p2].V, ret.field[p1].V)

\* two sampled points at different distances from the charge, both inside the
\* clamp radius, have the same V, and a third one farther out has a smaller V
C5_Witness ==
  /\ pc = "returned"
  /\ SingleAtOrigin(call.charges)
  /\ \E p1, p2, p3 \in DOMAIN ret.field :
       /\ FLt(ComputedR(ret.field[p1]), ComputedR(ret.field[p2]))
       /\ FLt(ComputedR(ret.field[p2]), Tenth)
       /\ ret.field[p1].V = ret.field[p2].V
       /\ FLt(Tenth, ComputedR(ret.field[p3]))
       /\ FLt(ret.field[p3].V, ret.field[p2].V)

\* the default pair of charges over [-5, 5]
IsDipoleCall(args) == args.charges = Dipole /\ args.range_val = range_val

\* the call of the end-to-end example: the default pair on the 10 x 10 grid
IsExample(args) == IsDipoleCall(args) /\ args.grid_size = 10

\* the grid point lies within 1.5 (1536 units) of the charge
Near(charge, sample) ==
  /\ IsScaled(sample.X) /\ IsScaled(sample.Y)
  /\ ExactDist2(charge, sample) <= 1536 * 1536

\* C6: for the charges (q = 1 at (-2, 0), q = -1 at (2, 0)) over [-5, 5], on the
\* 10 x 10 grid and on the other grids tried, V is positive at the sampled
\* points near (-2, 0) (at every sampled point with X < 0), negative at the
\* sampled points near (2, 0) (at every sampled point with X > 0), and zero at
\* the sampled points with X = 0 (the 10 x 10 grid has none).
C6_DipoleSigns ==
  (HasReturned /\ IsDipoleCall(call)) =>
    \A p \in DOMAIN ret.field :
      /\ Near(call.charges[1], ret.field[p]) => FLt(Zero, ret.field[p].V)
      /\ Near(call.charges[2], ret.field[p]) => FLt(ret.field[p].V, Zero)
      /\ FLt(ret.field[p].X, Zero) => FLt(Zero, ret.field[p].V)
      /\ FLt(Zero, ret.field[p].X) => FLt(ret.field[p].V, Zero)
      /\ ret.field[p].X = Zero => ret.field[p].V = Zero

\* the example has been evaluated; there are sampled points near each charge
C6_Witness ==
  /\ pc = "returned"
  /\ IsExample(call)
  /\ \E p1, p2 \in DOMAIN ret.field :
       /\ Near(call.charges[1], ret.field[p1]) /\ FLt(Zero, ret.field[p1].V)
       /\ Near(call.charges[2], ret.field[p2]) /\ FLt(ret.field[p2].V, Zero)

----------------------------------------------------------------------------
(***************************************************************************)
(* Properties of the script (checked under Spec).                          *)
(***************************************************************************)
\* C7: after any interactions the charge list has exactly num_charges entries,
\* 1 <= num_charges <= 5, entry i holds the values of the widgets of charge i,
\* each of q, x and y lies within [-5, 5], and nothing of the list of an
\* earlier pass is left in it.
C7_ListRebuiltFromWidgets ==
  /\ num_charges \in MinCharges..MaxCharges
  /\ Len(charges) = num_charges
  /\ \A i \in 1..Len(charges) :
       /\ charges[i] = [q |-> session[i].q, x |-> session[i].x, y |-> session[i].y]
       /\ WithinLimits(charges[i].q)
       /\ WithinLimits(charges[i].x)
       /\ WithinLimits(charges[i].y)

\* the count was lowered after a charge had been edited, and the list of the
\* pass is shorter than the list of the pass before
C7_Witness ==
  /\ Len(passes) >= 3
  /\ Len(passes[Len(passes) - 1].charges) > Len(charges)
  /\ passes[Len(passes) - 1].charges # passes[1].charges

C10_RenderCannotFail ==
  FLt(Zero, v_max) /\ contour = "drawn"

=============================================================================
